---------------------------- MODULE Spec2Model ----------------------------
(***************************************************************************)
(* A model of the AI-Code-Analyzer repository:                             *)
(*   src/Extractor.py  - entity extraction and the name resolvers          *)
(*   src/Analyzer.py   - the on_submit hook analyzer and the RAG pipeline  *)
(*                       (build_documents, build_index, retrieve)          *)
(*                                                                         *)
(* Python strings are modelled as sequences of tokens, so that joining,    *)
(* reversing and concatenation are computed and not assumed.               *)
(***************************************************************************)
EXTENDS Integers, Sequences, FiniteSets, TLC

VARIABLES
    \* ---- name resolver (Extractor.py, get_decorator_name) ----
    decorator,        \* the decorator expression handed to get_decorator_name
    decorator_name,   \* the string it returned
    pcD,              \* "parsed" | "resolved"
    \* ---- catalog builder (Extractor.py, extract_entities_from_directory) ----
    fs,               \* file system: path of a .py file -> what reading/parsing it gives
    path,             \* the root argument
    verbose,          \* the verbose argument
    python_files,     \* the candidate list, in the order the loop takes it
    pos,              \* number of candidates the loop has consumed
    all_entities,     \* the dict under construction (insertion-ordered)
    log,              \* everything printed so far
    pcX,              \* "call" | "loop" | "returned" | "raised"
    \* ---- hook call analyzer (Analyzer.py, ERPNextAnalyzer / analyze_file) ----
    source,           \* the parsed file: one statement per line
    stack,            \* the visitor's pending work (the recursion of NodeVisitor.visit)
    business_rules,   \* stats["business_rules"]
    methods_found,    \* stats["methods_found"]
    current_function, \* self.current_function ("" for None)
    pcH,              \* "parsed" | "visiting" | "done"
    \* ---- RAG pipeline (Analyzer.py, build_documents / build_index / retrieve) ----
    entities_file,    \* ENTITIES_FILE: the catalog, as json.loads returns it
    origin,           \* who wrote ENTITIES_FILE: "extractor" | "other"
    index_file,       \* INDEX_FILE on disk
    meta_file,        \* META_FILE on disk
    build_no,         \* how many times build_index has been entered
    docs,             \* build_index's docs
    index,            \* build_index's in-memory index (its vectors, in order)
    raised,           \* the exception that ended the last operation, "" if none
    retrieved,        \* the last retrieve call: labels found and results returned
    pcR               \* "stopped" | the line build_index is at | "ready" | "retrieved"

varsD == <<decorator, decorator_name, pcD>>
varsX == <<fs, path, verbose, python_files, pos, all_entities, log, pcX>>

varsH == <<source, stack, business_rules, methods_found, current_function, pcH>>

varsR == <<entities_file, origin, index_file, meta_file, build_no, docs, index, raised,
           retrieved, pcR>>

vars == <<varsD, varsX, varsH, varsR>>

(***************************************************************************)
(* Generic helpers                                                         *)
(***************************************************************************)

\* Python's reversed(parts)
Reversed(s) == [i \in 1..Len(s) |-> s[Len(s) + 1 - i]]

\* Python's sep.join(parts); parts is a sequence of strings
RECURSIVE Join(_, _)
Join(sep, parts) ==
    IF Len(parts) = 0 THEN <<>>
    ELSE IF Len(parts) = 1 THEN parts[1]
    ELSE parts[1] \o sep \o Join(sep, Tail(parts))

(***************************************************************************)
(* Name resolver: get_decorator_name / get_attribute_name                  *)
(***************************************************************************)

\* Bound: how many Attribute / Call nodes are wrapped around a leaf.
MaxDepth == 6

Identifiers == {"a", "b"}
CallArgs    == {<<>>, <<"x=1">>}

NameNode(id)          == [kind |-> "Name", id |-> id]
AttributeNode(v, a)   == [kind |-> "Attribute", value |-> v, attr |-> a]
CallNode(f, args)     == [kind |-> "Call", func |-> f, args |-> args]
SubscriptNode         == [kind |-> "Subscript"]
NoNode                == [kind |-> "None"]

\* The decorator expressions ast.parse can hand over, up to depth d.
RECURSIVE DecoratorExprs(_)
DecoratorExprs(d) ==
    IF d = 0
    THEN {NameNode(id) : id \in Identifiers} \cup {SubscriptNode}
    ELSE LET prev == DecoratorExprs(d - 1)
         IN  prev
             \cup {AttributeNode(v, a) : v \in prev, a \in Identifiers}
             \cup {CallNode(f, args) : f \in prev, args \in CallArgs}

\* an expression, and that expression under one more Attribute or Call node
Wrappings(e) ==
    {e} \cup {AttributeNode(e, a) : a \in Identifiers}
        \cup {CallNode(e, args) : args \in CallArgs}

\* The while loop of get_attribute_name: returns <<parts, current>> at exit.
RECURSIVE AttributeLoop(_, _)
AttributeLoop(parts, current) ==
    IF current.kind = "Attribute"
    THEN AttributeLoop(Append(parts, <<current.attr>>), current.value)
    ELSE <<parts, current>>

\* A resolver that forgets to reverse the collected parts.
get_attribute_name_unreversed(node) ==
    LET r      == AttributeLoop(<<>>, node)
        parts  == IF r[2].kind = "Name" THEN Append(r[1], <<r[2].id>>) ELSE r[1]
    IN  Join(<<".">>, parts)

get_attribute_name(node) ==
    LET r      == AttributeLoop(<<>>, node)
        parts  == IF r[2].kind = "Name" THEN Append(r[1], <<r[2].id>>) ELSE r[1]
    IN  Join(<<".">>, Reversed(parts))

RECURSIVE get_decorator_name(_)
get_decorator_name(node) ==
    IF node.kind = "Name" THEN <<node.id>>
    ELSE IF node.kind = "Attribute" THEN get_attribute_name(node)
    ELSE IF node.kind = "Call" THEN get_decorator_name(node.func)
    ELSE <<"unknown_decorator">>

\* decorators = [get_decorator_name(d) for d in node.decorator_list]
ResolveDecorator ==
    /\ pcD = "parsed"
    /\ decorator_name' = get_decorator_name(decorator)
    /\ pcD' = "resolved"
    /\ UNCHANGED decorator


\* ---- what the claim is stated against: the source text of an expression ----

\* an identifier followed by attribute accesses only: a, a.b, a.b.c, ...
RECURSIVE IsNameChain(_)
IsNameChain(e) ==
    IF e.kind = "Name" THEN TRUE
    ELSE IF e.kind = "Attribute" THEN IsNameChain(e.value)
    ELSE FALSE

\* the tokens of a name chain as written, left to right
RECURSIVE SourceText(_)
SourceText(e) ==
    IF e.kind = "Name" THEN <<e.id>>
    ELSE SourceText(e.value) \o <<".", e.attr>>

RECURSIVE AttrCount(_)
AttrCount(e) == IF e.kind = "Attribute" THEN 1 + AttrCount(e.value) ELSE 0

RECURSIVE StripCalls(_)
StripCalls(e) == IF e.kind = "Call" THEN StripCalls(e.func) ELSE e

\* the names of an attribute access read left to right: the innermost name
\* (when the innermost value is a name) and then every attribute
RECURSIVE ChainParts(_)
ChainParts(e) ==
    IF e.kind = "Attribute" THEN Append(ChainParts(e.value), <<e.attr>>)
    ELSE IF e.kind = "Name" THEN << <<e.id>> >>
    ELSE <<>>

\* C9: resolving a call gives what resolving its callee gives (at any call
\* nesting depth, arguments discarded); an identifier resolves to itself; a
\* name chain a.b.c of any depth resolves to its parts dot-joined in source
\* order (an attribute access on something that is not a name resolves to
\* its attribute names, dot-joined in source order); any other shape resolves
\* to "unknown_decorator".
C9_DecoratorResolution ==
    pcD = "resolved" =>
        /\ decorator.kind = "Call" =>
              /\ decorator_name = get_decorator_name(decorator.func)
              /\ decorator_name = get_decorator_name(StripCalls(decorator))
        /\ decorator.kind = "Name" => decorator_name = <<decorator.id>>
        /\ IsNameChain(StripCalls(decorator)) =>
              decorator_name = SourceText(StripCalls(decorator))
        /\ StripCalls(decorator).kind = "Attribute" =>
              decorator_name = Join(<<".">>, ChainParts(StripCalls(decorator)))
        /\ decorator.kind \notin {"Name", "Attribute", "Call"} =>
              decorator_name = <<"unknown_decorator">>

\* a call of a call of a five-part chain has been resolved
C9_Witness ==
    /\ pcD = "resolved"
    /\ decorator.kind = "Call"
    /\ decorator.func.kind = "Call"
    /\ IsNameChain(decorator.func.func)
    /\ AttrCount(decorator.func.func) >= 4
    /\ decorator_name = <<"a", ".", "b", ".", "a", ".", "b", ".", "b">>

(***************************************************************************)
(* Entity extraction: extract_entities_from_file, extract_class,           *)
(* extract_function                                                        *)
(***************************************************************************)

\* docstring[:200]
DocstringLimit == 200

\* Python's s[:n]
Truncate(s, n) == SubSeq(s, 1, IF Len(s) < n THEN Len(s) ELSE n)

\* Python's None where a string is expected (falsy, like "")
PyNone == <<>>

\* ---- parsed statements, as ast.parse positions them ----
ImportStmt(l) == [kind |-> "Import", lineno |-> l, end_lineno |-> l]
AssignStmt(l) == [kind |-> "Assign", lineno |-> l, end_lineno |-> l]

FunctionNode(k, name, args, decs, doc, l) ==
    [kind |-> k, name |-> name, args |-> args, decorator_list |-> decs,
     docstring |-> doc, lineno |-> l, end_lineno |-> l + 1]

\* class Invoice(Document, frappe.model.Base): with an assignment, a
\* constructor, an async private method and a public method
ClassNode(l) ==
    [kind |-> "ClassDef", name |-> <<"Invoice">>,
     bases |-> << NameNode("Document"),
                  AttributeNode(AttributeNode(NameNode("frappe"), "model"), "Base"),
                  CallNode(NameNode("mixin"), <<>>) >>,
     decorator_list |-> << NameNode("dataclass") >>,
     docstring |-> <<"Sales", " ", "invoice">>,
     body |-> << AssignStmt(l + 1),
                 FunctionNode("FunctionDef", <<"_", "_", "init", "_", "_">>,
                              << <<"self">> >>, <<>>, <<>>, l + 2),
                 FunctionNode("AsyncFunctionDef", <<"_", "validate">>,
                              << <<"self">>, <<"strict">> >>, <<>>, <<>>, l + 4),
                 FunctionNode("FunctionDef", <<"on", "_", "submit">>,
                              << <<"self">> >>,
                              << CallNode(AttributeNode(NameNode("frappe"), "whitelist"), <<>>) >>,
                              <<"Post">>, l + 6) >>,
     lineno |-> l, end_lineno |-> l + 7]

TopLevelKinds == {"Import", "FunctionDef", "AsyncFunctionDef", "ClassDef"}

TopLevelNode(k, l) ==
    IF k = "Import" THEN ImportStmt(l)
    ELSE IF k = "FunctionDef"
         THEN FunctionNode(k, <<"validate">>, << <<"doc">> >>, <<>>, <<"Checks">>, l)
    ELSE IF k = "AsyncFunctionDef"
         THEN FunctionNode(k, <<"fetch">>, <<>>, << SubscriptNode >>, <<>>, l)
    ELSE ClassNode(l)

\* Source text is modelled as the sequence of its top-level statements' kinds;
\* ModuleBody lays them out from line l on, as ast.parse does.
RECURSIVE ModuleBody(_, _)
ModuleBody(kinds, l) ==
    IF Len(kinds) = 0 THEN <<>>
    ELSE LET n == TopLevelNode(kinds[1], l)
         IN  <<n>> \o ModuleBody(Tail(kinds), n.end_lineno + 1)

IsFunctionLike(node) == node.kind \in {"FunctionDef", "AsyncFunctionDef"}

\* [f(x) for x in s]
MapSeq(s, F(_)) == [i \in 1..Len(s) |-> F(s[i])]

extract_function(node, parent_class) ==
    [type         |-> "function",
     kind         |-> IF Len(parent_class) > 0
                      THEN IF node.name = <<"_", "_", "init", "_", "_">> THEN "constructor"
                           ELSE IF Len(node.name) > 0 /\ node.name[1] = "_"
                                THEN "private_method"
                                ELSE "method"
                      ELSE "function",
     name         |-> node.name,
     line         |-> node.lineno,
     end_line     |-> node.end_lineno,
     params       |-> node.args,
     decorators   |-> MapSeq(node.decorator_list, get_decorator_name),
     docstring    |-> IF Len(node.docstring) > 0
                      THEN Truncate(node.docstring, DocstringLimit) ELSE <<>>,
     is_async     |-> node.kind = "AsyncFunctionDef",
     parent_class |-> parent_class]

\* the bases loop: Name and Attribute bases are kept, any other base is dropped
RECURSIVE ClassBases(_)
ClassBases(bases) ==
    IF Len(bases) = 0 THEN <<>>
    ELSE LET base == bases[1]
         IN  (IF base.kind = "Name" THEN << <<base.id>> >>
              ELSE IF base.kind = "Attribute" THEN << get_attribute_name(base) >>
              ELSE <<>>)
             \o ClassBases(Tail(bases))

\* the methods loop over node.body
RECURSIVE ClassMethods(_, _)
ClassMethods(body, class_name) ==
    IF Len(body) = 0 THEN <<>>
    ELSE (IF IsFunctionLike(body[1])
          THEN << extract_function(body[1], class_name) >> ELSE <<>>)
         \o ClassMethods(Tail(body), class_name)

extract_class(node) ==
    LET methods == ClassMethods(node.body, node.name)
    IN  [type         |-> "class",
         name         |-> node.name,
         line         |-> node.lineno,
         end_line     |-> node.end_lineno,
         bases        |-> ClassBases(node.bases),
         decorators   |-> MapSeq(node.decorator_list, get_decorator_name),
         docstring    |-> IF Len(node.docstring) > 0
                          THEN Truncate(node.docstring, DocstringLimit) ELSE <<>>,
         methods      |-> methods,
         method_count |-> Len(methods)]

\* the loop over tree.body
RECURSIVE ExtractBody(_)
ExtractBody(body) ==
    IF Len(body) = 0 THEN <<>>
    ELSE (IF body[1].kind = "ClassDef" THEN << extract_class(body[1]) >>
          ELSE IF IsFunctionLike(body[1]) THEN << extract_function(body[1], PyNone) >>
          ELSE <<>>)
         \o ExtractBody(Tail(body))

\* What a file on disk is: unreadable (read_text raises OSError), not UTF-8
\* (read_text raises UnicodeDecodeError), malformed (ast.parse raises
\* SyntaxError), or source text that parses.
Unreadable  == [state |-> "unreadable"]
Undecodable == [state |-> "undecodable"]
Malformed   == [state |-> "malformed"]
Source(kinds) == [state |-> "source", text |-> kinds]

\* tree = ast.parse(source_code); tree.body
ast_parse_body(source_code) == ModuleBody(source_code, 1)

\* extract_entities_from_file: the entity list, or the exception it raises
extract_entities_from_file(content) ==
    IF content.state = "unreadable" THEN [raised |-> "PermissionError"]
    ELSE IF content.state = "undecodable" THEN [raised |-> "UnicodeDecodeError"]
    ELSE IF content.state = "malformed" THEN [raised |-> "SyntaxError"]
    ELSE [raised |-> "", entities |-> ExtractBody(ast_parse_body(content.text))]


(***************************************************************************)
(* Catalog builder: extract_entities_from_directory                        *)
(***************************************************************************)

\* Bound: the number of top-level statements of a source file.
MaxBody == 1

\* A path is a sequence of components, a component a <<stem, suffix>> pair.
Dir(name)        == <<name, "">>
File(stem, suf)  == <<stem, suf>>
Root      == << Dir("code"), Dir("erpnext") >>
HooksPy   == Root \o << File("hooks", ".py") >>
InvoicePy == Root \o << Dir("accounts"), File("invoice", ".py") >>
EntryPy   == Root \o << Dir("stock"), File("entry", ".py") >>
ReadmeMd  == Root \o << File("README", ".md") >>

PyFiles   == {HooksPy, InvoicePy, EntryPy}
AllFiles  == PyFiles \cup {ReadmeMd}

\* pathlib: is_file, suffix, parent, relative_to, str, rglob
is_file(p)        == p \in AllFiles
suffix(p)         == p[Len(p)][2]
parent(p)         == SubSeq(p, 1, Len(p) - 1)
relative_to(p, q) == SubSeq(p, Len(q) + 1, Len(p))
str(p)            == Join(<<"/">>, [i \in 1..Len(p) |-> <<p[i][1] \o p[i][2]>>])
IsUnder(p, d)     == Len(p) > Len(d) /\ SubSeq(p, 1, Len(d)) = d
rglob_py(d)       == {f \in AllFiles : IsUnder(f, d) /\ suffix(f) = ".py"}

\* every order in which a set of paths can be listed
Orders(S) ==
    {s \in [1..Cardinality(S) -> S] : \A i, j \in 1..Cardinality(S) : i # j => s[i] # s[j]}

RECURSIVE SeqsUpTo(_, _)
SeqsUpTo(S, n) ==
    IF n = 0 THEN {<<>>}
    ELSE LET prev == SeqsUpTo(S, n - 1)
         IN  prev \cup {Append(s, x) : s \in {t \in prev : Len(t) = n - 1}, x \in S}

FileContents ==
    {Unreadable, Undecodable, Malformed}
    \cup {Source(kinds) : kinds \in SeqsUpTo(TopLevelKinds, MaxBody)}

\* ---- an insertion-ordered dict: a sequence of <<key, value>> pairs ----
DictKeys(d)    == {d[i][1] : i \in 1..Len(d)}
DictGet(d, k)  == d[CHOOSE i \in 1..Len(d) : d[i][1] = k][2]
DictSet(d, k, v) ==
    IF k \in DictKeys(d)
    THEN [i \in 1..Len(d) |-> IF d[i][1] = k THEN <<k, v>> ELSE d[i]]
    ELSE Append(d, <<k, v>>)

\* ---- the exception classes involved, each with its base classes ----
Bases(exc) ==
    IF exc = "PermissionError" THEN {"PermissionError", "OSError", "Exception"}
    ELSE IF exc = "UnicodeDecodeError"
         THEN {"UnicodeDecodeError", "UnicodeError", "ValueError", "Exception"}
    ELSE IF exc = "SyntaxError" THEN {"SyntaxError", "Exception"}
    ELSE {}

\* a handler written as "except SyntaxError"
CaughtOnlySyntaxError(exc) == "SyntaxError" \in Bases(exc)

\* except Exception as e
Caught(exc) == "Exception" \in Bases(exc)

\* if verbose: print(f"  Error parsing {file_path}: {e}")
LogsFailure(v) == v

\* lines 26-36: the candidate list, in whatever order the file system lists it
ListCandidates ==
    /\ pcX = "call"
    /\ \E order \in Orders(IF is_file(path)
                           THEN (IF suffix(path) = ".py" THEN {path} ELSE {})
                           ELSE rglob_py(path)) :
          /\ python_files' = order
          /\ log' = IF verbose
                    THEN Append(log, [kind |-> "found", count |-> Len(order)])
                    ELSE log
    /\ pos' = 0
    /\ pcX' = "loop"
    /\ UNCHANGED <<fs, path, verbose, all_entities>>

\* lines 38-52: one iteration of the for loop, try block and handler included
ProcessFile ==
    /\ pcX = "loop"
    /\ pos < Len(python_files)
    /\ LET file_path == python_files[pos + 1]
           r         == extract_entities_from_file(fs[file_path])
       IN  IF r.raised = ""
           THEN IF Len(r.entities) > 0
                THEN LET relative_path == str(relative_to(file_path, parent(path)))
                     IN  /\ all_entities' = DictSet(all_entities, relative_path, r.entities)
                         /\ log' = IF verbose
                                   THEN Append(log, [kind |-> "entities",
                                                     file |-> relative_path,
                                                     count |-> Len(r.entities)])
                                   ELSE log
                         /\ pcX' = "loop"
                ELSE UNCHANGED <<all_entities, log, pcX>>
           ELSE IF Caught(r.raised)
                THEN /\ log' = IF LogsFailure(verbose)
                               THEN Append(log, [kind |-> "error",
                                                 file |-> str(file_path),
                                                 error |-> r.raised])
                               ELSE log
                     /\ UNCHANGED <<all_entities, pcX>>
                ELSE /\ pcX' = "raised"
                     /\ UNCHANGED <<all_entities, log>>
    /\ pos' = pos + 1
    /\ UNCHANGED <<fs, path, verbose, python_files>>

\* line 54: return all_entities
ReturnCatalog ==
    /\ pcX = "loop"
    /\ pos = Len(python_files)
    /\ pcX' = "returned"
    /\ UNCHANGED <<fs, path, verbose, python_files, pos, all_entities, log>>


\* ---- what the catalog claims are stated against ----

Candidates == {python_files[i] : i \in 1..Len(python_files)}

ReadAndParsed(f) == fs[f].state = "source"
FailedFile(f)    == fs[f].state \in {"unreadable", "undecodable", "malformed"}

\* the top-level class and function statements of a source text, in order
IsEntityKind(k) == k \in {"ClassDef", "FunctionDef", "AsyncFunctionDef"}
TopEntityKinds(f) == SelectSeq(fs[f].text, IsEntityKind)

NameOfKind(k) ==
    IF k = "ClassDef" THEN <<"Invoice">>
    ELSE IF k = "FunctionDef" THEN <<"validate">> ELSE <<"fetch">>

\* the key a candidate is filed under: its path relative to the root's parent
ExpectedKey(f) ==
    IF path = Root
    THEN IF f = HooksPy THEN <<"erpnext", "/", "hooks.py">>
         ELSE IF f = InvoicePy THEN <<"erpnext", "/", "accounts", "/", "invoice.py">>
         ELSE <<"erpnext", "/", "stock", "/", "entry.py">>
    ELSE <<"hooks.py">>

IsEntityListOf(list, f) ==
    LET kinds == TopEntityKinds(f)
    IN  /\ Len(list) = Len(kinds)
        /\ \A i \in 1..Len(kinds) :
              /\ list[i].type = (IF kinds[i] = "ClassDef" THEN "class" ELSE "function")
              /\ list[i].name = NameOfKind(kinds[i])
              /\ kinds[i] # "ClassDef" =>
                    /\ list[i].is_async = (kinds[i] = "AsyncFunctionDef")
                    /\ list[i].kind = "function"
              /\ list[i].line <= list[i].end_line
              /\ \A j \in 1..(i - 1) : list[j].end_line < list[i].line

\* C1: the run never raises and the loop never runs past the candidate list
\* (each iteration consumes one candidate, so it returns); the returned Catalog has a
\* key for a candidate file exactly when the file was read and parsed and has
\* at least one top-level class or function, and the value under the key is
\* that file's own entity list, whatever happened to the other files.
C1_CatalogIsolatesFailures ==
    /\ pcX # "raised"
    /\ pcX = "loop" => pos <= Len(python_files)
    /\ pcX = "returned" =>
          /\ pos = Len(python_files)
          /\ DictKeys(all_entities) =
                {ExpectedKey(f) : f \in {g \in Candidates :
                                           ReadAndParsed(g) /\ Len(TopEntityKinds(g)) > 0}}
          /\ Len(all_entities) = Cardinality(DictKeys(all_entities))
          /\ \A f \in Candidates :
                (ReadAndParsed(f) /\ Len(TopEntityKinds(f)) > 0) =>
                    IsEntityListOf(DictGet(all_entities, ExpectedKey(f)), f)

\* a directory run that met a malformed file first, then two well-formed
\* files, and returned a Catalog holding the two of them
C1_Witness ==
    /\ pcX = "returned"
    /\ path = Root
    /\ python_files[1] = HooksPy
    /\ fs[HooksPy].state = "malformed"
    /\ fs[InvoicePy] = Source(<<"ClassDef">>)
    /\ fs[EntryPy] = Source(<<"FunctionDef">>)
    /\ Len(all_entities) = 2

\* C7: every per-file failure the run recovered from left one failure record
\* naming the file in the log, whatever the verbose argument is.
C7_FailuresAreLogged ==
    pcX = "returned" =>
        \A f \in Candidates :
            FailedFile(f) =>
                Cardinality({i \in 1..Len(log) :
                                log[i].kind = "error" /\ log[i].file = str(f)}) = 1

(***************************************************************************)
(* Hook call analyzer: ERPNextAnalyzer and analyze_file (Analyzer.py)      *)
(***************************************************************************)

\* Bound: the number of statements (one per line) of the analysed file.
MaxLines == 4

\* the method name tested at line 19
HookName == "on_submit"

\* ---- statements ast.parse can produce ----
FunctionDefStmt(name) == [type |-> "FunctionDef", name |-> name]
ClassDefStmt          == [type |-> "ClassDef", name |-> "Invoice"]
IfStmt                == [type |-> "If"]
ExprStmt(value)       == [type |-> "Expr", value |-> value]
AssignValueStmt(value)    == [type |-> "Assign", value |-> value]
ConstantNode          == [kind |-> "Constant"]

SelfCall(attr) == CallNode(AttributeNode(NameNode("self"), attr), <<>>)

CompoundStmts == {FunctionDefStmt(HookName), FunctionDefStmt("validate"),
                  ClassDefStmt, IfStmt}
SimpleStmts   == {ExprStmt(SelfCall("x")), ExprStmt(SelfCall("y")),
                  ExprStmt(CallNode(NameNode("foo"), <<>>)),
                  AssignValueStmt(SelfCall("x")),
                  ExprStmt(ConstantNode)}

IsCompound(stmt) == stmt.type \in {"FunctionDef", "ClassDef", "If"}

\* A parsed file: line i holds statement src[i].node, whose enclosing
\* compound statement is on line src[i].parent (0: the module body).
\* The lines a further statement can be attached under:
RECURSIVE Enclosing(_, _)
Enclosing(src, i) == IF i = 0 THEN {0} ELSE {src[i].parent} \cup Enclosing(src, src[i].parent)

AttachPoints(src) ==
    IF Len(src) = 0 THEN {0}
    ELSE IF IsCompound(src[Len(src)].node) THEN {Len(src)}
    ELSE Enclosing(src, Len(src))

\* a statement sequence with one more line, at every indentation it can have
NextLines(src) ==
    {Append(src, [node |-> st, parent |-> p]) :
        st \in CompoundStmts \cup SimpleStmts, p \in AttachPoints(src)}

\* every indented statement sequence of exactly n lines
RECURSIVE Indented(_)
Indented(n) ==
    IF n = 0 THEN {<<>>}
    ELSE UNION {NextLines(src) : src \in Indented(n - 1)}

\* what ast.parse accepts: no compound statement with an empty body
Parses(src) == IF Len(src) = 0 THEN TRUE ELSE ~IsCompound(src[Len(src)].node)

\* node.body: the lines directly under line i, top to bottom
IsChildOf(src, i, j) == src[j].parent = i
Body(src, i) ==
    LET Under(j) == IsChildOf(src, i, j)
    IN  SelectSeq([j \in 1..Len(src) |-> j], Under)

\* every line nested under line i at any depth, top to bottom
Descendants(src, i) ==
    LET Under(j) == i \in Enclosing(src, j)
    IN  SelectSeq([j \in 1..Len(src) |-> j], Under)

\* Python's isinstance on statements and expressions, and hasattr
IsStmt(stmt, t)   == stmt.type = t
IsExpr(expr, k)   == expr.kind = k
HasAttr(node, f)  == f \in DOMAIN node

\* the for loop of analyze_on_submit over the given lines
RECURSIVE ScanItems(_, _)
ScanItems(src, items) ==
    IF Len(items) = 0 THEN <<>>
    ELSE LET item == src[items[1]].node
         IN  (IF IsStmt(item, "Expr") /\ IsExpr(item.value, "Call")
                 /\ HasAttr(item.value.func, "attr")
              THEN << [source_method |-> "on_submit",
                       calls         |-> item.value.func.attr,
                       line_number   |-> items[1]] >>
              ELSE <<>>)
             \o ScanItems(src, Tail(items))

\* an analyzer that drills into nested blocks
analyze_on_submit_deep(src, i) == ScanItems(src, Descendants(src, i))

\* the records analyze_on_submit appends for the function on line i
analyze_on_submit(src, i) == ScanItems(src, Body(src, i))

VisitFrames(items) == [k \in 1..Len(items) |-> [op |-> "visit", node |-> items[k]]]

\* analyze_file, lines 53-57: parse, construct the analyzer, visit the module
StartVisit ==
    /\ pcH = "parsed"
    /\ stack' = VisitFrames(Body(source, 0))
    /\ pcH' = "visiting"
    /\ UNCHANGED <<source, business_rules, methods_found, current_function>>

\* NodeVisitor.visit on the next pending node: visit_FunctionDef for a
\* FunctionDef (lines 14-24), generic_visit for anything else
VisitNode ==
    /\ pcH = "visiting"
    /\ Len(stack) > 0
    /\ Head(stack).op = "visit"
    /\ LET i    == Head(stack).node
           stmt == source[i].node
       IN  IF IsStmt(stmt, "FunctionDef")
           THEN /\ methods_found' = methods_found + 1
                /\ current_function' = stmt.name
                /\ business_rules' =
                      IF stmt.name = HookName
                      THEN business_rules \o analyze_on_submit(source, i)
                      ELSE business_rules
                /\ stack' = VisitFrames(Body(source, i))
                            \o << [op |-> "leave", node |-> i] >> \o Tail(stack)
           ELSE /\ stack' = VisitFrames(Body(source, i)) \o Tail(stack)
                /\ UNCHANGED <<business_rules, methods_found, current_function>>
    /\ UNCHANGED <<source, pcH>>

\* line 24: self.current_function = None, after the children were visited
LeaveFunction ==
    /\ pcH = "visiting"
    /\ Len(stack) > 0
    /\ Head(stack).op = "leave"
    /\ current_function' = ""
    /\ stack' = Tail(stack)
    /\ UNCHANGED <<source, business_rules, methods_found, pcH>>

\* analyze_file, line 62: return analyzer.stats
ReturnStats ==
    /\ pcH = "visiting"
    /\ Len(stack) = 0
    /\ pcH' = "done"
    /\ UNCHANGED <<source, stack, business_rules, methods_found, current_function>>

\* ---- what the hook claims are stated against ----

\* line j is an expression statement whose value is a call of expr.attr
IsDirectMethodCall(j) ==
    /\ source[j].node.type = "Expr"
    /\ source[j].node.value.kind = "Call"
    /\ source[j].node.value.func.kind = "Attribute"

VisitingHook ==
    /\ pcH = "visiting"
    /\ Len(stack) > 0
    /\ Head(stack).op = "visit"
    /\ source[Head(stack).node].node.type = "FunctionDef"
    /\ source[Head(stack).node].node.name = HookName

\* C2: analysing a hook function appends exactly one record per immediate
\* statement of its body that is an expression statement calling expr.attr,
\* in statement order, each with the hook name, the called attribute and the
\* statement's line; statements of any other shape, and statements nested
\* deeper, add none.
C2_HookScanIsShallow ==
    [][ VisitingHook =>
          LET h     == Head(stack).node
              calls == {j \in 1..Len(source) : source[j].parent = h /\ IsDirectMethodCall(j)}
              old   == Len(business_rules)
              new   == Len(business_rules') - old
          IN  /\ new = Cardinality(calls)
              /\ SubSeq(business_rules', 1, old) = business_rules
              /\ \A k \in 1..new :
                    LET r == business_rules'[old + k]
                    IN  /\ r.line_number \in calls
                        /\ r.calls = source[r.line_number].node.value.func.attr
                        /\ r.source_method = HookName
                        /\ k > 1 => business_rules'[old + k - 1].line_number < r.line_number
      ]_vars

\* a hook whose body is three direct calls self.x(); self.y(); self.x() was
\* analysed and gave three records in that order
C2_Witness ==
    /\ pcH = "done"
    /\ Len(source) = 4
    /\ source[1] = [node |-> FunctionDefStmt(HookName), parent |-> 0]
    /\ \A j \in 2..4 : source[j].parent = 1
    /\ business_rules =
          << [source_method |-> "on_submit", calls |-> "x", line_number |-> 2],
             [source_method |-> "on_submit", calls |-> "y", line_number |-> 3],
             [source_method |-> "on_submit", calls |-> "x", line_number |-> 4] >>

\* C8: when analyze_file returns, business_rules is in source order (line
\* numbers never decrease along the list) and every record names the hook.
C8_RulesInSourceOrder ==
    pcH = "done" =>
        /\ \A k \in 1..Len(business_rules) : business_rules[k].source_method = HookName
        /\ \A k \in 2..Len(business_rules) :
              business_rules[k - 1].line_number <= business_rules[k].line_number

(***************************************************************************)
(* Document flattener: build_documents (Analyzer.py)                       *)
(***************************************************************************)

\* Bound: the number of documents an entities file with source text yields.
MaxDocs == 2

\* the source spans found in entities files that carry them
SourceTexts == {"alpha", "beta"}

\* ---- what ENTITIES_FILE can hold ----

\* (a) what the extraction run writes: all_entities after a run over one or
\*     two files (json.dump / json.loads keep keys, order and fields)
EmittedEntityLists ==
    {ExtractBody(ast_parse_body(kinds)) : kinds \in SeqsUpTo(TopLevelKinds, MaxBody)}
    \ {<<>>}

EmittedCatalogs ==
    {<<>>}
    \cup {<< <<<<"erpnext", "/", "hooks.py">>, e>> >> : e \in EmittedEntityLists}
    \cup {<< <<<<"erpnext", "/", "hooks.py">>, e1>>,
             <<<<"erpnext", "/", "stock", "/", "entry.py">>, e2>> >> :
             e1 \in EmittedEntityLists, e2 \in EmittedEntityLists}

\* (b) a file of the same layout whose records also carry "source_code"
FunctionRecord(text) ==
    [type |-> "function", name |-> <<"validate">>, source_code |-> text]
MethodRecord(text) ==
    [type |-> "function", name |-> <<"on", "_", "submit">>, source_code |-> text]
ClassRecord(text) ==
    [type |-> "class", name |-> <<"Invoice">>, source_code |-> text, methods |-> <<>>]

FileNames  == <<"a.py", "b.py", "c.py", "d.py", "e.py", "f.py">>
FileKey(i) == <<"erpnext", "/", FileNames[i]>>

\* a catalog grown by one record: a new file, a further top-level record in
\* the last file, or a further method of the last record if it is a class
GrowCatalog(c) ==
    LET NewFile == {Append(c, <<FileKey(Len(c) + 1), <<e>>>>) :
                       e \in {FunctionRecord(t) : t \in SourceTexts}
                             \cup {ClassRecord(t) : t \in SourceTexts}}
        last    == c[Len(c)]
        ents    == last[2]
        SameFile == {[c EXCEPT ![Len(c)] = <<last[1], Append(ents, e)>>] :
                       e \in {FunctionRecord(t) : t \in SourceTexts}
                             \cup {ClassRecord(t) : t \in SourceTexts}}
        lastEnt == ents[Len(ents)]
        Method  == IF lastEnt.type = "class"
                   THEN {[c EXCEPT ![Len(c)] =
                            <<last[1],
                              [ents EXCEPT ![Len(ents)] =
                                  [lastEnt EXCEPT !.methods = Append(@, MethodRecord(t))]]>>] :
                            t \in SourceTexts}
                   ELSE {}
    IN  IF Len(c) = 0 THEN NewFile ELSE NewFile \cup SameFile \cup Method

RECURSIVE CatalogsOfSize(_)
CatalogsOfSize(n) ==
    IF n = 0 THEN {<<>>}
    ELSE UNION {GrowCatalog(c) : c \in CatalogsOfSize(n - 1)}

SourceCatalogs == UNION {CatalogsOfSize(n) : n \in 1..MaxDocs}

\* ---- build_documents ----

\* ent["source_code"]: the value, or KeyError when the record has no such key
HasKey(rec, key) == key \in DOMAIN rec

\* lines 111-120: the documents of a class's methods, or KeyError
RECURSIVE MethodDocuments(_, _, _)
MethodDocuments(file, ent, methods) ==
    IF Len(methods) = 0 THEN [raised |-> "", documents |-> <<>>]
    ELSE LET m == methods[1]
         IN  IF ~HasKey(m, "source_code") THEN [raised |-> "KeyError", documents |-> <<>>]
             ELSE LET rest == MethodDocuments(file, ent, Tail(methods))
                  IN  IF rest.raised # "" THEN rest
                      ELSE [raised |-> "",
                            documents |->
                               << [text |-> m.source_code,
                                   metadata |-> [file |-> file, class |-> ent.name,
                                                 name |-> m.name, type |-> "method"]] >>
                               \o rest.documents]

\* lines 102-129: the documents of one top-level entity, or KeyError
EntityDocuments(file, ent) ==
    IF ~HasKey(ent, "source_code") THEN [raised |-> "KeyError", documents |-> <<>>]
    ELSE IF ent.type = "class"
         THEN LET ms == MethodDocuments(file, ent, ent.methods)
              IN  IF ms.raised # "" THEN ms
                  ELSE [raised |-> "",
                        documents |->
                           << [text |-> ent.source_code,
                               metadata |-> [file |-> file, name |-> ent.name,
                                             type |-> "class"]] >>
                           \o ms.documents]
         ELSE [raised |-> "",
               documents |-> << [text |-> ent.source_code,
                                 metadata |-> [file |-> file, name |-> ent.name,
                                               type |-> "function"]] >>]

\* line 101: for ent in entities
RECURSIVE FileDocuments(_, _)
FileDocuments(file, entities) ==
    IF Len(entities) = 0 THEN [raised |-> "", documents |-> <<>>]
    ELSE LET first == EntityDocuments(file, entities[1])
         IN  IF first.raised # "" THEN first
             ELSE LET rest == FileDocuments(file, Tail(entities))
                  IN  IF rest.raised # "" THEN rest
                      ELSE [raised |-> "", documents |-> first.documents \o rest.documents]

\* lines 96-131: for file, entities in data.items()
RECURSIVE build_documents(_)
build_documents(data) ==
    IF Len(data) = 0 THEN [raised |-> "", documents |-> <<>>]
    ELSE LET first == FileDocuments(data[1][1], data[1][2])
         IN  IF first.raised # "" THEN first
             ELSE LET rest == build_documents(Tail(data))
                  IN  IF rest.raised # "" THEN rest
                      ELSE [raised |-> "", documents |-> first.documents \o rest.documents]

(***************************************************************************)
(* Embedding index builder and retrieval: build_index, retrieve, __main__  *)
(***************************************************************************)

\* Bounds: how many times build_index is entered in one behaviour, and the
\* largest top_k passed explicitly to retrieve.
MaxBuilds == 2
MaxTopK == 2

\* def retrieve(query, top_k=5)
DefaultTopK == 5

Queries == {"alpha", "gamma"}

\* model.encode: a pure function from a text to a fixed-dimension vector.
\* "gamma" lies midway between "alpha" and "beta".
Encode(text) ==
    IF text = "alpha" THEN <<0, 0>>
    ELSE IF text = "beta" THEN <<2, 0>>
    ELSE <<1, 0>>

\* line 137, written with the list reversed
texts_reversed(ds) == [i \in 1..Len(ds) |-> ds[Len(ds) + 1 - i].text]

\* line 137: texts = [d["text"] for d in docs]
texts_of(ds) == [i \in 1..Len(ds) |-> ds[i].text]

\* line 138: model.encode(texts), order-preserving
encode_batch(texts) == [i \in 1..Len(texts) |-> Encode(texts[i])]

\* IndexFlatL2: squared Euclidean distance
L2sqr(u, v) == (u[1] - v[1]) * (u[1] - v[1]) + (u[2] - v[2]) * (u[2] - v[2])

\* index.search(q, k) on a flat L2 index of n vectors: k labels (0-based
\* positions), nearest first; where fewer than k vectors exist the remaining
\* labels are -1. The order among equally distant vectors is the library's
\* choice, so every such order is a possible result.
SearchResults(vectors, q, k) ==
    LET n    == Len(vectors)
        m    == IF k < n THEN k ELSE n
        D(p) == L2sqr(vectors[p + 1], q)
        Hits == {h \in [1..m -> 0..(n - 1)] :
                    /\ \A i, j \in 1..m : i # j => h[i] # h[j]
                    /\ \A i \in 1..(m - 1) : D(h[i]) <= D(h[i + 1])
                    /\ \A p \in 0..(n - 1) :
                          (\A i \in 1..m : h[i] # p) => \A i \in 1..m : D(h[i]) <= D(p)}
    IN  {[i \in 1..k |-> IF i <= m THEN h[i] ELSE -1] : h \in Hits}

\* Python's list[idx]: negative indices count from the end
InRange(list, idx) == idx < Len(list) /\ idx >= -Len(list)
PyIndex(list, idx) == IF idx >= 0 THEN list[idx + 1] ELSE list[Len(list) + idx + 1]

\* lines 159-161: results.append(metadata[idx]) for each label, or IndexError
RECURSIVE MapLabels(_, _)
MapLabels(metadata, labels) ==
    IF Len(labels) = 0 THEN [raised |-> "", results |-> <<>>]
    ELSE IF ~InRange(metadata, labels[1]) THEN [raised |-> "IndexError", results |-> <<>>]
    ELSE LET rest == MapLabels(metadata, Tail(labels))
         IN  IF rest.raised # "" THEN rest
             ELSE [raised |-> "", results |-> <<PyIndex(metadata, labels[1])>> \o rest.results]

\* ---- files on disk ----
Absent              == [state |-> "absent"]
Partial(b)          == [state |-> "partial", build |-> b]
Complete(b, data)   == [state |-> "complete", build |-> b, data |-> data]
Exists(file)        == file.state # "absent"
Readable(file)      == file.state = "complete"

NoResult == [raised |-> "", labels |-> <<>>, results |-> <<>>]

\* build_index is entered: build number build_no + 1 begins
EnterBuild ==
    /\ build_no < MaxBuilds
    /\ build_no' = build_no + 1
    /\ docs' = <<>>
    /\ index' = <<>>
    /\ raised' = ""
    /\ retrieved' = NoResult
    /\ pcR' = "build_documents"

\* __main__, lines 194-197: build only if INDEX_FILE does not exist
Main ==
    /\ pcR = "stopped"
    /\ IF ~Exists(index_file)
       THEN EnterBuild
       ELSE /\ pcR' = "ready"
            /\ raised' = ""
            /\ retrieved' = NoResult
            /\ UNCHANGED <<build_no, docs, index>>
    /\ UNCHANGED <<entities_file, origin, index_file, meta_file>>

\* build_index() called directly, whatever is on disk
CallBuildIndex ==
    /\ pcR \in {"stopped", "ready"}
    /\ EnterBuild
    /\ UNCHANGED <<entities_file, origin, index_file, meta_file>>

\* line 135: docs = build_documents(); a KeyError ends the process
BuildDocuments ==
    /\ pcR = "build_documents"
    /\ LET r == build_documents(entities_file)
       IN  IF r.raised # ""
           THEN /\ raised' = r.raised
                /\ pcR' = "stopped"
                /\ UNCHANGED docs
           ELSE /\ docs' = r.documents
                /\ pcR' = "encode"
                /\ UNCHANGED raised
    /\ UNCHANGED <<entities_file, origin, index_file, meta_file, build_no, index, retrieved>>

\* lines 137-142: encode the texts, create the index, add the vectors;
\* with no documents embeddings.shape[1] raises IndexError
EncodeAndAdd ==
    /\ pcR = "encode"
    /\ IF Len(docs) = 0
       THEN /\ raised' = "IndexError"
            /\ pcR' = "stopped"
            /\ UNCHANGED <<index, docs>>
       ELSE /\ index' = encode_batch(texts_of(docs))
            /\ pcR' = "write_index"
            /\ UNCHANGED <<raised, docs>>
    /\ UNCHANGED <<entities_file, origin, index_file, meta_file, build_no, retrieved>>

\* line 146, faiss.write_index: the file is opened (truncated) ...
OpenIndexFile ==
    /\ pcR = "write_index"
    /\ index_file' = Partial(build_no)
    /\ pcR' = "writing_index"
    /\ UNCHANGED <<entities_file, origin, meta_file, build_no, docs, index, raised, retrieved>>

\* ... and the vectors are written
WriteIndexFile ==
    /\ pcR = "writing_index"
    /\ index_file' = Complete(build_no, index)
    /\ pcR' = "write_meta"
    /\ UNCHANGED <<entities_file, origin, meta_file, build_no, docs, index, raised, retrieved>>

\* line 147, META_FILE.write_text: the file is opened (truncated) ...
OpenMetaFile ==
    /\ pcR = "write_meta"
    /\ meta_file' = Partial(build_no)
    /\ pcR' = "writing_meta"
    /\ UNCHANGED <<entities_file, origin, index_file, build_no, docs, index, raised, retrieved>>

\* ... and the documents are written; lines 149-150 report the build
WriteMetaFile ==
    /\ pcR = "writing_meta"
    /\ meta_file' = Complete(build_no, docs)
    /\ pcR' = "built"
    /\ UNCHANGED <<entities_file, origin, index_file, build_no, docs, index, raised, retrieved>>

\* build_index returns to its caller
FinishBuild ==
    /\ pcR = "built"
    /\ pcR' = "ready"
    /\ UNCHANGED <<entities_file, origin, index_file, meta_file, build_no, docs, index,
                   raised, retrieved>>

InBuild == pcR \in {"build_documents", "encode", "write_index", "writing_index",
                    "write_meta", "writing_meta", "built"}

\* the process is killed while build_index runs; the files stay as they are
Crash ==
    /\ InBuild
    /\ pcR' = "stopped"
    /\ raised' = "killed"
    /\ docs' = <<>>
    /\ index' = <<>>
    /\ UNCHANGED <<entities_file, origin, index_file, meta_file, build_no, retrieved>>

\* lines 152-162: retrieve(query, top_k)
retrieve(query, top_k) ==
    /\ pcR = "ready"
    /\ IF ~Readable(index_file) \/ ~Readable(meta_file)
       THEN /\ retrieved' = [raised |-> "ReadError", labels |-> <<>>, results |-> <<>>]
            /\ raised' = "ReadError"
            /\ pcR' = "stopped"
       ELSE \E labels \in SearchResults(index_file.data, Encode(query), top_k) :
               LET r == MapLabels(meta_file.data, labels)
               IN  /\ retrieved' = [raised |-> r.raised, labels |-> labels,
                                    results |-> r.results, query |-> query, top_k |-> top_k]
                   /\ raised' = r.raised
                   /\ pcR' = IF r.raised = "" THEN "retrieved" ELSE "stopped"
    /\ UNCHANGED <<entities_file, origin, index_file, meta_file, build_no, docs, index>>

\* retrieve called with an explicit top_k
RetrieveTopK == \E q \in Queries, k \in 1..MaxTopK : retrieve(q, k)

\* line 165, ask: docs = retrieve(question)
RetrieveDefault == \E q \in Queries : retrieve(q, DefaultTopK)

\* line 162: return results; the caller goes on to the next question
ReturnResults ==
    /\ pcR = "retrieved"
    /\ pcR' = "ready"
    /\ retrieved' = NoResult
    /\ UNCHANGED <<entities_file, origin, index_file, meta_file, build_no, docs, index, raised>>

\* lines 202-203: exit / quit
Quit ==
    /\ pcR = "ready"
    /\ pcR' = "stopped"
    /\ docs' = <<>>
    /\ index' = <<>>
    /\ UNCHANGED <<entities_file, origin, index_file, meta_file, build_no, raised, retrieved>>

\* ---- what the pipeline claims are stated against ----

SameBuildPair ==
    /\ Readable(index_file)
    /\ Readable(meta_file)
    /\ index_file.build = meta_file.build

\* C3: when build_index has completed, the index and the metadata store on
\* disk have the same length and, position by position, the vector is the
\* embedding of the text of the Document at that position.
C3_IndexAlignedWithMetadata ==
    pcR = "built" =>
        /\ SameBuildPair
        /\ index_file.build = build_no
        /\ Len(index_file.data) = Len(meta_file.data)
        /\ \A i \in 1..Len(meta_file.data) :
              index_file.data[i] = Encode(meta_file.data[i].text)

\* a rebuild over a published pair completed, over two documents whose
\* texts differ
C3_Witness ==
    /\ pcR = "built"
    /\ build_no = 2
    /\ Len(meta_file.data) = 2
    /\ meta_file.data[1].text # meta_file.data[2].text

\* C4: whenever no build is running (also after a crash inside build_index,
\* also on a rebuild), the index file and the metadata file are either both
\* absent or unreadable, or a readable pair written by the same build.
C4_PublicationIsAllOrNothing ==
    pcR \in {"stopped", "ready", "retrieved"} =>
        \/ SameBuildPair
        \/ ~Readable(index_file) /\ ~Readable(meta_file)

\* the (file, name, type) of the documents a catalog should flatten to:
\* per file, per top-level entity, the entity and then its methods
RECURSIVE ExpectedOfMethods(_, _, _)
ExpectedOfMethods(file, cls, methods) ==
    IF Len(methods) = 0 THEN <<>>
    ELSE << [file |-> file, class |-> cls, name |-> methods[1].name, type |-> "method"] >>
         \o ExpectedOfMethods(file, cls, Tail(methods))

RECURSIVE ExpectedOfEntities(_, _)
ExpectedOfEntities(file, entities) ==
    IF Len(entities) = 0 THEN <<>>
    ELSE LET e == entities[1]
         IN  (IF e.type = "class"
              THEN << [file |-> file, name |-> e.name, type |-> "class"] >>
                   \o ExpectedOfMethods(file, e.name, e.methods)
              ELSE << [file |-> file, name |-> e.name, type |-> "function"] >>)
             \o ExpectedOfEntities(file, Tail(entities))

RECURSIVE ExpectedMetadata(_)
ExpectedMetadata(catalog) ==
    IF Len(catalog) = 0 THEN <<>>
    ELSE ExpectedOfEntities(catalog[1][1], catalog[1][2]) \o ExpectedMetadata(Tail(catalog))

\* C6: on a Catalog written by the extraction run, build_documents returns
\* without error, with one Document per class, method and top-level function,
\* in Catalog order with each class's methods right after the class.
C6_FlattensEmittedCatalog ==
    (origin = "extractor" /\ build_no > 0 /\ pcR # "build_documents") =>
        /\ raised # "KeyError"
        /\ pcR = "encode" =>
              /\ Len(docs) = Len(ExpectedMetadata(entities_file))
              /\ \A i \in 1..Len(docs) : docs[i].metadata = ExpectedMetadata(entities_file)[i]

\* C10: every document retrieve returns is the metadata entry at a real
\* index position the search reported, and no position is returned twice.
C10_ResultsAreReportedPositions ==
    (pcR = "retrieved" /\ SameBuildPair) =>
        /\ Len(retrieved.results) = Len(retrieved.labels)
        /\ \A i \in 1..Len(retrieved.results) :
              /\ retrieved.labels[i] \in 0..(Len(index_file.data) - 1)
              /\ retrieved.results[i] = meta_file.data[retrieved.labels[i] + 1]
        /\ \A i, j \in 1..Len(retrieved.labels) :
              i # j => retrieved.labels[i] # retrieved.labels[j]

(***************************************************************************)
(* Specifications: one per component; the other components stay idle       *)
(***************************************************************************)

NextDecorator ==
    \/ ResolveDecorator /\ UNCHANGED <<varsX, varsH, varsR>>

\* a decorator expression has been parsed; nothing else runs
InitDecorator ==
    /\ \E e \in DecoratorExprs(MaxDepth - 1) : decorator \in Wrappings(e)
    /\ decorator_name = <<>>
    /\ pcD = "parsed"
    /\ fs = <<>>
    /\ path = <<>>
    /\ verbose = FALSE
    /\ python_files = <<>>
    /\ pos = 0
    /\ all_entities = <<>>
    /\ log = <<>>
    /\ pcX = "idle"
    /\ source = <<>>
    /\ stack = <<>>
    /\ business_rules = <<>>
    /\ methods_found = 0
    /\ current_function = ""
    /\ pcH = "idle"
    /\ entities_file = <<>>
    /\ origin = "none"
    /\ index_file = Absent
    /\ meta_file = Absent
    /\ build_no = 0
    /\ docs = <<>>
    /\ index = <<>>
    /\ raised = ""
    /\ retrieved = NoResult
    /\ pcR = "idle"

SpecDecorator == InitDecorator /\ [][NextDecorator]_vars

NextExtract ==
    \/ ListCandidates /\ UNCHANGED <<varsD, varsH, varsR>>
    \/ ProcessFile /\ UNCHANGED <<varsD, varsH, varsR>>
    \/ ReturnCatalog /\ UNCHANGED <<varsD, varsH, varsR>>

\* extract_entities_from_directory(path, verbose) is called on a file system
InitExtract ==
    /\ decorator = NoNode
    /\ decorator_name = <<>>
    /\ pcD = "idle"
    /\ fs \in [PyFiles -> FileContents]
    /\ path \in {Root, HooksPy, ReadmeMd}
    /\ verbose \in BOOLEAN
    /\ python_files = <<>>
    /\ pos = 0
    /\ all_entities = <<>>
    /\ log = <<>>
    /\ pcX = "call"
    /\ source = <<>>
    /\ stack = <<>>
    /\ business_rules = <<>>
    /\ methods_found = 0
    /\ current_function = ""
    /\ pcH = "idle"
    /\ entities_file = <<>>
    /\ origin = "none"
    /\ index_file = Absent
    /\ meta_file = Absent
    /\ build_no = 0
    /\ docs = <<>>
    /\ index = <<>>
    /\ raised = ""
    /\ retrieved = NoResult
    /\ pcR = "idle"

SpecExtract == InitExtract /\ [][NextExtract]_vars

NextHook ==
    \/ StartVisit /\ UNCHANGED <<varsD, varsX, varsR>>
    \/ VisitNode /\ UNCHANGED <<varsD, varsX, varsR>>
    \/ LeaveFunction /\ UNCHANGED <<varsD, varsX, varsR>>
    \/ ReturnStats /\ UNCHANGED <<varsD, varsX, varsR>>

\* analyze_file is called on a file that parses
InitHook ==
    /\ decorator = NoNode
    /\ decorator_name = <<>>
    /\ pcD = "idle"
    /\ fs = <<>>
    /\ path = <<>>
    /\ verbose = FALSE
    /\ python_files = <<>>
    /\ pos = 0
    /\ all_entities = <<>>
    /\ log = <<>>
    /\ pcX = "idle"
    /\ \/ source = <<>>
       \/ \E n \in 1..MaxLines : \E src \in Indented(n - 1) : source \in NextLines(src)
    /\ Parses(source)
    /\ stack = <<>>
    /\ business_rules = <<>>
    /\ methods_found = 0
    /\ current_function = ""
    /\ pcH = "parsed"
    /\ entities_file = <<>>
    /\ origin = "none"
    /\ index_file = Absent
    /\ meta_file = Absent
    /\ build_no = 0
    /\ docs = <<>>
    /\ index = <<>>
    /\ raised = ""
    /\ retrieved = NoResult
    /\ pcR = "idle"

SpecHook == InitHook /\ [][NextHook]_vars

NextRag ==
    \/ Main /\ UNCHANGED <<varsD, varsX, varsH>>
    \/ CallBuildIndex /\ UNCHANGED <<varsD, varsX, varsH>>
    \/ BuildDocuments /\ UNCHANGED <<varsD, varsX, varsH>>
    \/ EncodeAndAdd /\ UNCHANGED <<varsD, varsX, varsH>>
    \/ OpenIndexFile /\ UNCHANGED <<varsD, varsX, varsH>>
    \/ WriteIndexFile /\ UNCHANGED <<varsD, varsX, varsH>>
    \/ OpenMetaFile /\ UNCHANGED <<varsD, varsX, varsH>>
    \/ WriteMetaFile /\ UNCHANGED <<varsD, varsX, varsH>>
    \/ FinishBuild /\ UNCHANGED <<varsD, varsX, varsH>>
    \/ Crash /\ UNCHANGED <<varsD, varsX, varsH>>
    \/ RetrieveTopK /\ UNCHANGED <<varsD, varsX, varsH>>
    \/ RetrieveDefault /\ UNCHANGED <<varsD, varsX, varsH>>
    \/ ReturnResults /\ UNCHANGED <<varsD, varsX, varsH>>
    \/ Quit /\ UNCHANGED <<varsD, varsX, varsH>>

\* the entities file was written earlier; no index has been built yet
InitRag ==
    /\ decorator = NoNode
    /\ decorator_name = <<>>
    /\ pcD = "idle"
    /\ fs = <<>>
    /\ path = <<>>
    /\ verbose = FALSE
    /\ python_files = <<>>
    /\ pos = 0
    /\ all_entities = <<>>
    /\ log = <<>>
    /\ pcX = "idle"
    /\ source = <<>>
    /\ stack = <<>>
    /\ business_rules = <<>>
    /\ methods_found = 0
    /\ current_function = ""
    /\ pcH = "idle"
    /\ \/ entities_file \in EmittedCatalogs /\ origin = "extractor"
       \/ entities_file \in SourceCatalogs /\ origin = "other"
    /\ index_file = Absent
    /\ meta_file = Absent
    /\ build_no = 0
    /\ docs = <<>>
    /\ index = <<>>
    /\ raised = ""
    /\ retrieved = NoResult
    /\ pcR = "stopped"

SpecRag == InitRag /\ [][NextRag]_vars

=============================================================================
